---- MODULE Spec2Model ----
(***************************************************************************)
(* diskmon: the sampling-to-rate pipeline of disk_monitor.                 *)
(*                                                                         *)
(* DiskMonitor.run / update_display (monitor.py) poll the collector        *)
(* (collector.py), derive rates with MetricsFormatter (formatter.py) and   *)
(* hand the rows to ConsoleDisplay (display.py).                           *)
(*                                                                         *)
(* Representation                                                          *)
(*  - device names and paths are sequences of one-character strings, so    *)
(*    that basename, startswith and rstrip are computed as Python does;    *)
(*  - a Python dict is the sequence of its items [k, v] in insertion order *)
(*    (dict iteration order), with unique keys;                            *)
(*  - a float that the code obtains by dividing integers is the exact      *)
(*    rational [num, den] (den > 0); timestamps are integer clock ticks.   *)
(*    With the intervals used here the quotients are dyadic or have no     *)
(*    decimal tie, so ".1f" formatting of the float equals round-half-even *)
(*    of the rational;                                                     *)
(*  - a call that may raise returns [exc, msg, value]: exc = "None" when   *)
(*    it returned value.                                                   *)
(***************************************************************************)
EXTENDS Integers, Sequences, FiniteSets, TLC

VARIABLES
    refresh_interval,   \* DiskMonitor.refresh_interval
    slept,              \* history: the argument of the latest time.sleep call
    previous_failed,    \* history: a collector raised in the cycle before this one
    pc,                 \* position of the main thread in run()/update_display()
    running,            \* DiskMonitor.running
    include_network,    \* DiskInfoCollector.include_network
    previous_io_stats,  \* DiskMonitor.previous_io_stats (dict device -> IOStats)
    disk_usages,        \* update_display local: result of get_disk_usage()
    current_io_stats,   \* update_display local: result of get_disk_io_stats()
    io_rates_dict,      \* update_display local: dict device -> IORates
    reached,            \* how far the try body of update_display got this cycle
    raised,             \* the exception being handled (the handlers' `e`)
    screen,             \* the table lines the current cycle has put on the terminal
    errors_shown,       \* display_error messages printed in this cycle
    baseline,           \* history: the counter map collected by the latest earlier cycle
    rate_base,          \* history: self.previous_io_stats as the rate loop of this cycle read it
    exit_signum,        \* signum handle_shutdown was called with ("" before any call)
    exit_cleared,       \* whether handle_shutdown's clear_screen() succeeded
    diskstats,          \* history: the /proc/diskstats feed get_disk_io_stats read this cycle
    call,               \* a method called on its own: its name and arguments
    result              \* what that call returned or raised

vars == << refresh_interval, slept, previous_failed, pc, running, include_network, previous_io_stats, disk_usages,
           current_io_stats, io_rates_dict, reached, raised, screen,
           errors_shown, baseline, rate_base, exit_signum, exit_cleared,
           diskstats, call, result >>

-----------------------------------------------------------------------------
(* Bounds of the model *)

\* clock readings time.time() are drawn from 0..MaxTime
MaxTime == 1
\* the activity level of a feed line is drawn from 0..MaxCount (see FeedLine)
MaxCount == 1
\* at most MaxMounts partitions are enumerated per cycle
MaxMounts == 1

\* the methods called on their own: counters are 50 * (0..MaxLevel), intervals
\* -1..MaxInterval, mount lists have at most MaxUnitMounts entries, feeds at
\* most MaxLines lines, byte counts are m * 1024^e with e in 0..MaxExp
MaxLevel == 3

MaxInterval == 2

MaxUnitMounts == 2

MaxLines == 2

MaxExp == 4
MaxRows == 2

-----------------------------------------------------------------------------
(* Strings *)

Digits == {"0", "1", "2", "3", "4", "5", "6", "7", "8", "9"}

\* str.startswith(prefix)
startswith(s, prefix) ==
    /\ Len(prefix) <= Len(s)
    /\ SubSeq(s, 1, Len(prefix)) = prefix

\* str.rstrip("0123456789")
RECURSIVE rstrip_digits(_)
rstrip_digits(s) ==
    IF s = <<>> THEN s
    ELSE IF s[Len(s)] \in Digits THEN rstrip_digits(SubSeq(s, 1, Len(s) - 1))
    ELSE s

\* os.path.basename: what follows the last "/"
RECURSIVE basename(_)
basename(p) ==
    IF p = <<>> THEN <<>>
    ELSE IF p[Len(p)] = "/" THEN <<>>
    ELSE Append(basename(SubSeq(p, 1, Len(p) - 1)), p[Len(p)])

\* s[:n] if len(s) > n else s
truncate(s, n) == IF Len(s) > n THEN SubSeq(s, 1, n) ELSE s

\* the Python str of a character sequence
RECURSIVE text(_)
text(s) == IF s = <<>> THEN "" ELSE s[1] \o text(Tail(s))

\* f"{s:<w}": left-justified in a field of width w, never cut
RECURSIVE ljust(_, _)
ljust(s, w) == IF Len(s) >= w THEN s ELSE ljust(s \o " ", w)

\* "c" * n
RECURSIVE repeat(_, _)
repeat(c, n) == IF n <= 0 THEN "" ELSE c \o repeat(c, n - 1)

-----------------------------------------------------------------------------
(* Dicts: sequences of items [k, v] with unique keys, in insertion order *)

DictKeys(d) == { d[i].k : i \in 1..Len(d) }

DictHas(d, key) == \E i \in 1..Len(d) : d[i].k = key

\* d[key]; the caller has checked that key is present
DictGet(d, key) == d[CHOOSE i \in 1..Len(d) : d[i].k = key].v

\* d[key] = value: overwrite in place, or append a new item
DictSet(d, key, value) ==
    IF DictHas(d, key)
    THEN [ i \in 1..Len(d) |-> IF d[i].k = key THEN [k |-> key, v |-> value] ELSE d[i] ]
    ELSE Append(d, [k |-> key, v |-> value])

-----------------------------------------------------------------------------
(* Numbers: exact rationals and the ".1f" presentation *)

Rat(n, d) == [num |-> n, den |-> d]

RatNeg(a) == a.num < 0

Abs(n) == IF n < 0 THEN -n ELSE n

\* tenths of |n/d| rounded half to even, as the correctly rounded ".1f" does
RoundTenths(n, d) ==
    LET whole == Abs(n) \div d
        a     == (Abs(n) % d) * 10
        q     == whole * 10 + a \div d
        r     == a % d
    IN  IF 2 * r > d THEN q + 1
        ELSE IF 2 * r = d THEN q + (q % 2)
        ELSE q

\* f"{x:.1f}" for x = n/d (a negative x keeps its sign even when it rounds to 0.0)
format_1f(x) ==
    LET t == RoundTenths(x.num, x.den)
    IN  (IF RatNeg(x) THEN "-" ELSE "") \o ToString(t \div 10) \o "." \o ToString(t % 10)

-----------------------------------------------------------------------------
(* collector.py: DiskInfoCollector *)

NETWORK_FS_TYPES == {"nfs", "nfs4", "cifs", "smb", "smbfs", "fuse.sshfs", "fuse.glusterfs"}

SPECIAL_FS_TYPES == {"tmpfs", "devtmpfs", "squashfs", "overlay"}

\* bytes per sector of /proc/diskstats
SectorSize == 512

\* number of fields a feed line needs to be parsed
MinFields == 14

\* (mutant) the percentage computed without the guard on total_bytes
DiskUsageUnguarded(partition) ==
    [ device          |-> partition.device,
      mountpoint      |-> partition.mountpoint,
      total_bytes     |-> partition.total,
      used_bytes      |-> partition.total - partition.free,
      available_bytes |-> partition.free,
      usage_percent   |-> Rat((partition.total - partition.free) * 100, partition.total) ]

\* DiskUsage(...) built from one partition whose shutil.disk_usage succeeded
DiskUsage(partition) ==
    LET total_bytes == partition.total
        free_bytes  == partition.free
        used_bytes  == total_bytes - free_bytes
    IN  [ device          |-> partition.device,
          mountpoint      |-> partition.mountpoint,
          total_bytes     |-> total_bytes,
          used_bytes      |-> used_bytes,
          available_bytes |-> free_bytes,
          usage_percent   |-> IF total_bytes > 0 THEN Rat(used_bytes * 100, total_bytes)
                              ELSE Rat(0, 1) ]

\* (mutant) include_network lets every filesystem type through
PartitionKeptAnyTypeWithNet(partition, net) ==
    /\ net \/ partition.fstype \notin SPECIAL_FS_TYPES \cup NETWORK_FS_TYPES
    /\ partition.ok

\* whether get_disk_usage keeps the partition: not a special type, not a network
\* type unless include_network, and its space query did not fail
PartitionKept(partition, net) ==
    /\ partition.fstype \notin SPECIAL_FS_TYPES
    /\ net \/ partition.fstype \notin NETWORK_FS_TYPES
    /\ partition.ok

\* (mutant) get_disk_usage with its try around the loop: the first failing space
\* query ends the scan
RECURSIVE get_disk_usage_abort(_, _)
get_disk_usage_abort(partitions, net) ==
    IF partitions = <<>> THEN <<>>
    ELSE IF PartitionKept(Head(partitions), net)
         THEN <<DiskUsage(Head(partitions))>> \o get_disk_usage_abort(Tail(partitions), net)
         ELSE IF PartitionKept([Head(partitions) EXCEPT !.ok = TRUE], net)
         THEN <<>>
         ELSE get_disk_usage_abort(Tail(partitions), net)

\* get_disk_usage(): partitions is what psutil.disk_partitions() returned, each
\* with the outcome of shutil.disk_usage on its mountpoint (ok, total, free)
RECURSIVE get_disk_usage(_, _)
get_disk_usage(partitions, net) ==
    IF partitions = <<>> THEN <<>>
    ELSE IF PartitionKept(Head(partitions), net)
         THEN <<DiskUsage(Head(partitions))>> \o get_disk_usage(Tail(partitions), net)
         ELSE get_disk_usage(Tail(partitions), net)

\* device_name.startswith(("loop", "ram"))
SkippedDevice(device_name) ==
    \/ startswith(device_name, <<"l", "o", "o", "p">>)
    \/ startswith(device_name, <<"r", "a", "m">>)

\* (mutant) the clock read again for every line: the timestamps of two devices
\* differ
IOStatsStampedPerLine(line, current_time) ==
    [ device      |-> line.name,
      read_ops    |-> line.reads,
      write_ops   |-> line.writes,
      read_bytes  |-> line.read_sectors * SectorSize,
      write_bytes |-> line.write_sectors * SectorSize,
      timestamp   |-> current_time + Len(line.name) ]

\* (mutant) the sector counts taken for byte counts
IOStatsSectorsAsBytes(line, current_time) ==
    [ device      |-> line.name,
      read_ops    |-> line.reads,
      write_ops   |-> line.writes,
      read_bytes  |-> line.read_sectors,
      write_bytes |-> line.write_sectors,
      timestamp   |-> current_time ]

\* IOStats(...) built from one parsed feed line
IOStats(line, current_time) ==
    [ device      |-> line.name,
      read_ops    |-> line.reads,
      write_ops   |-> line.writes,
      read_bytes  |-> line.read_sectors * SectorSize,
      write_bytes |-> line.write_sectors * SectorSize,
      timestamp   |-> current_time ]

\* the for-loop of get_disk_io_stats over lines i.. of the feed, io_stats so far.
\* feed.io_error_at = i > 0: reading line i raises OSError (i = 1: the open fails),
\* which the method catches, returning what it has. A line whose counters are not
\* decimal numbers makes int() raise ValueError, which the method does not catch.
RECURSIVE read_diskstats(_, _, _, _)
read_diskstats(feed, current_time, i, io_stats) ==
    IF i > Len(feed.lines) \/ feed.io_error_at = i
    THEN [exc |-> "None", msg |-> "", value |-> io_stats]
    ELSE LET line == feed.lines[i]
         IN  IF line.nfields < MinFields \/ SkippedDevice(line.name)
             THEN read_diskstats(feed, current_time, i + 1, io_stats)
             ELSE IF ~line.numeric
             THEN [exc |-> "ValueError", msg |-> "invalid literal for int()", value |-> <<>>]
             ELSE read_diskstats(feed, current_time, i + 1,
                                 DictSet(io_stats, line.name, IOStats(line, current_time)))

\* (mutant) get_disk_io_stats without its try block: a failing open raises
get_disk_io_stats_unguarded(feed, current_time) ==
    IF feed.io_error_at = 1
    THEN [exc |-> "FileNotFoundError", msg |-> "/proc/diskstats", value |-> <<>>]
    ELSE read_diskstats(feed, current_time, 1, <<>>)

\* get_disk_io_stats()
get_disk_io_stats(feed, current_time) == read_diskstats(feed, current_time, 1, <<>>)

-----------------------------------------------------------------------------
(* formatter.py: MetricsFormatter *)

\* 1024: the base of the byte units and of the KB/s conversion
Kilo == 1024

\* 1024**k for k in 0..3 (1024**4 is beyond the integers of the model)
Pow1024(k) == CASE k = 0 -> 1 [] k = 1 -> Kilo [] k = 2 -> Kilo * Kilo
                [] k = 3 -> Kilo * Kilo * Kilo

\* (mutant) the thresholds belong to the smaller unit
AtMostPow(m, e, j) ==
    IF j >= e THEN (j - e > 3) \/ m <= Pow1024(j - e) ELSE m = 0

\* bytes_value < 1024**j for the byte count bytes_value = m * 1024**e (m below
\* 2**31, so below 1024**4)
BelowPow(m, e, j) ==
    IF j >= e THEN (j - e > 3) \/ m < Pow1024(j - e) ELSE m = 0

\* bytes_value / 1024**j for bytes_value = m * 1024**e
Scaled(m, e, j) ==
    IF j >= e THEN Rat(m, Pow1024(j - e)) ELSE Rat(m * Pow1024(e - j), 1)

\* format_bytes on the byte count m * 1024**e: the if/elif chain of the method
format_byte_count(m, e) ==
    IF BelowPow(m, e, 1)
    THEN ToString(IF e = 0 THEN m ELSE 0) \o " B"
    ELSE IF BelowPow(m, e, 2)
    THEN format_1f(Scaled(m, e, 1)) \o " KB"
    ELSE IF BelowPow(m, e, 3)
    THEN format_1f(Scaled(m, e, 2)) \o " MB"
    ELSE IF BelowPow(m, e, 4)
    THEN format_1f(Scaled(m, e, 3)) \o " GB"
    ELSE format_1f(Scaled(m, e, 4)) \o " TB"

\* format_bytes(bytes_value)
format_bytes(bytes_value) == format_byte_count(bytes_value, 0)

\* (mutant) the byte counters of the two directions exchanged
IORatesBytesSwapped(current, previous, interval) ==
    [ device            |-> current.device,
      read_ops_per_sec  |-> Rat(current.read_ops - previous.read_ops, interval),
      write_ops_per_sec |-> Rat(current.write_ops - previous.write_ops, interval),
      read_kb_per_sec   |-> Rat(current.write_bytes - previous.write_bytes, interval * Kilo),
      write_kb_per_sec  |-> Rat(current.read_bytes - previous.read_bytes, interval * Kilo) ]

\* (mutant) a negative rate is clamped to zero
IORatesClamped(current, previous, interval) ==
    LET Clamp(n) == IF n < 0 THEN 0 ELSE n
    IN  [ device            |-> current.device,
          read_ops_per_sec  |-> Rat(Clamp(current.read_ops - previous.read_ops), interval),
          write_ops_per_sec |-> Rat(Clamp(current.write_ops - previous.write_ops), interval),
          read_kb_per_sec   |-> Rat(Clamp(current.read_bytes - previous.read_bytes),
                                    interval * Kilo),
          write_kb_per_sec  |-> Rat(Clamp(current.write_bytes - previous.write_bytes),
                                    interval * Kilo) ]

\* IORates(...) of two samples of one device over a positive interval
IORates(current, previous, interval) ==
    LET read_ops_diff    == current.read_ops - previous.read_ops
        write_ops_diff   == current.write_ops - previous.write_ops
        read_bytes_diff  == current.read_bytes - previous.read_bytes
        write_bytes_diff == current.write_bytes - previous.write_bytes
    IN  [ device            |-> current.device,
          read_ops_per_sec  |-> Rat(read_ops_diff, interval),
          write_ops_per_sec |-> Rat(write_ops_diff, interval),
          read_kb_per_sec   |-> Rat(read_bytes_diff, interval * Kilo),
          write_kb_per_sec  |-> Rat(write_bytes_diff, interval * Kilo) ]

\* (mutant) the device check made before the interval check
calculate_io_rates_device_first(current, previous, interval) ==
    IF current.device # previous.device
    THEN [exc |-> "ValueError", msg |-> "IOStats must be for the same device", value |-> <<>>]
    ELSE IF interval <= 0
    THEN [exc |-> "ValueError", msg |-> "Interval must be positive", value |-> <<>>]
    ELSE [exc |-> "None", msg |-> "", value |-> IORates(current, previous, interval)]

\* calculate_io_rates(current, previous, interval)
calculate_io_rates(current, previous, interval) ==
    IF interval <= 0
    THEN [exc |-> "ValueError", msg |-> "Interval must be positive", value |-> <<>>]
    ELSE IF current.device # previous.device
    THEN [exc |-> "ValueError", msg |-> "IOStats must be for the same device", value |-> <<>>]
    ELSE [exc |-> "None", msg |-> "", value |-> IORates(current, previous, interval)]

-----------------------------------------------------------------------------
(* display.py: ConsoleDisplay *)

ColumnTitles ==
    << "Device", "Mount Point", "Used", "Available", "Total", "Usage %",
       "Read Ops/s", "Write Ops/s", "Read KB/s", "Write KB/s" >>

ColumnWidths == << 15, 20, 10, 10, 10, 8, 12, 13, 12, 12 >>

\* the f-string of a header or row: every column left-justified in its width,
\* the columns separated by one space
RECURSIVE format_columns(_, _)
format_columns(cols, i) ==
    IF i > Len(cols) THEN ""
    ELSE ljust(cols[i], ColumnWidths[i])
         \o (IF i < Len(cols) THEN " " ELSE "")
         \o format_columns(cols, i + 1)

\* one printed line of the table
Line(kind, cols, str) == [kind |-> kind, cols |-> cols, text |-> str]

\* display_header(): the header line and the separator line
display_header ==
    LET header == format_columns(ColumnTitles, 1)
    IN  << Line("header", ColumnTitles, header),
           Line("separator", <<>>, repeat("-", Len(header))) >>

\* (mutant) a row without rates shows zeros
rate_fields_zero(io_rates) ==
    IF io_rates # <<>>
    THEN << format_1f(io_rates[1].read_ops_per_sec),
            format_1f(io_rates[1].write_ops_per_sec),
            format_1f(io_rates[1].read_kb_per_sec),
            format_1f(io_rates[1].write_kb_per_sec) >>
    ELSE << "0.0", "0.0", "0.0", "0.0" >>

\* "Format I/O rates if available": read_ops, write_ops, read_kb, write_kb of
\* display_disk_row; io_rates is <<>> for None and <<rates>> for an IORates
\* object (an object is always truthy)
rate_fields(io_rates) ==
    IF io_rates # <<>>
    THEN << format_1f(io_rates[1].read_ops_per_sec),
            format_1f(io_rates[1].write_ops_per_sec),
            format_1f(io_rates[1].read_kb_per_sec),
            format_1f(io_rates[1].write_kb_per_sec) >>
    ELSE << "N/A", "N/A", "N/A", "N/A" >>

\* display_disk_row(disk_usage, io_rates): the printed row
display_disk_row(disk_usage, io_rates) ==
    LET device        == text(truncate(disk_usage.device, 14))
        mountpoint    == text(truncate(disk_usage.mountpoint, 19))
        used          == format_bytes(disk_usage.used_bytes)
        available     == format_bytes(disk_usage.available_bytes)
        total         == format_bytes(disk_usage.total_bytes)
        usage_percent == format_1f(disk_usage.usage_percent) \o "%"
        cols          == << device, mountpoint, used, available, total, usage_percent >>
                             \o rate_fields(io_rates)
    IN  Line("row", cols, format_columns(cols, 1))

\* device_key == device_name
ExactRule(device_key, device_name) == device_key = device_name

\* device_name.startswith(device_key)
PrefixRule(device_key, device_name) == startswith(device_name, device_key)

\* device_key.startswith(device_name.rstrip("0123456789"))
StemRule(device_key, device_name) == startswith(device_key, rstrip_digits(device_name))

\* (mutant) the matching condition without its third alternative
KeyMatchesNoStem(device_key, device_name) ==
    \/ ExactRule(device_key, device_name)
    \/ PrefixRule(device_key, device_name)

\* the condition of the matching loop of display_disk_metrics
KeyMatches(device_key, device_name) ==
    \/ ExactRule(device_key, device_name)
    \/ PrefixRule(device_key, device_name)
    \/ StemRule(device_key, device_name)

\* the matching loop from item i on: the position of the first key of the dict,
\* in iteration order, that satisfies the condition (the loop breaks there);
\* 0 when the loop ends without a match
RECURSIVE first_match(_, _, _)
first_match(rates_dict, device_name, i) ==
    IF i > Len(rates_dict) THEN 0
    ELSE IF KeyMatches(rates_dict[i].k, device_name) THEN i
    ELSE first_match(rates_dict, device_name, i + 1)

\* position in rates_dict of the item display_disk_metrics attaches to the row of
\* disk_usage; 0 when io_rates stays None (an empty dict is falsy: no search)
matched_item(disk_usage, rates_dict) ==
    IF rates_dict = <<>> THEN 0
    ELSE first_match(rates_dict, basename(disk_usage.device), 1)

\* the io_rates display_disk_metrics passes to display_disk_row
matched_io_rates(disk_usage, rates_dict) ==
    LET i == matched_item(disk_usage, rates_dict)
    IN  IF i = 0 THEN <<>> ELSE << rates_dict[i].v >>

\* (mutant) the rows printed from the last usage record to the first
RECURSIVE display_rows_reversed(_, _)
display_rows_reversed(usages, rates_dict) ==
    IF usages = <<>> THEN <<>>
    ELSE display_rows_reversed(Tail(usages), rates_dict)
         \o << display_disk_row(Head(usages), matched_io_rates(Head(usages), rates_dict)) >>

\* the rows display_disk_metrics prints, one per usage record, in list order
RECURSIVE display_rows(_, _)
display_rows(usages, rates_dict) ==
    IF usages = <<>> THEN <<>>
    ELSE << display_disk_row(Head(usages), matched_io_rates(Head(usages), rates_dict)) >>
         \o display_rows(Tail(usages), rates_dict)

\* everything display_disk_metrics prints after clear_screen()
display_disk_metrics(usages, rates_dict) ==
    display_header \o display_rows(usages, rates_dict)

-----------------------------------------------------------------------------
(* monitor.py: the rate loop of update_display *)

\* `device in self.previous_io_stats`
DeviceInPrevious(previous, device) == DictHas(previous, device)

\* (mutant) the two timestamps swapped
IntervalSwapped(current_stats, previous_stats) ==
    previous_stats.timestamp - current_stats.timestamp

\* interval = current_stats.timestamp - previous_stats.timestamp
Interval(current_stats, previous_stats) ==
    current_stats.timestamp - previous_stats.timestamp

\* (mutant) the rate loop without its `if interval > 0`
IntervalUnchecked(interval) == TRUE

\* `if interval > 0:`
IntervalPositive(interval) == interval > 0

\* the for-loop over current_io_stats.items() from item i on, rates so far;
\* calls lists the arguments of the calculate_io_rates calls made so far.
\* ValueError raised by calculate_io_rates is caught per device (continue); a
\* KeyError of self.previous_io_stats[device] would not be.
RECURSIVE rate_loop(_, _, _, _, _)
rate_loop(previous, current, i, rates, calls) ==
    IF i > Len(current)
    THEN [exc |-> "None", msg |-> "", value |-> rates, calls |-> calls]
    ELSE LET device        == current[i].k
             current_stats == current[i].v
         IN  IF ~DeviceInPrevious(previous, device)
             THEN rate_loop(previous, current, i + 1, rates, calls)
             ELSE IF ~DictHas(previous, device)
             THEN [exc |-> "KeyError", msg |-> "device", value |-> <<>>, calls |-> calls]
             ELSE LET previous_stats == DictGet(previous, device)
                      interval       == Interval(current_stats, previous_stats)
                      r == calculate_io_rates(current_stats, previous_stats, interval)
                      called == Append(calls, [current  |-> current_stats,
                                               previous |-> previous_stats,
                                               interval |-> interval])
                  IN  IF ~IntervalPositive(interval)
                      THEN rate_loop(previous, current, i + 1, rates, calls)
                      ELSE IF r.exc \in {"ValueError", "ZeroDivisionError"}
                      THEN rate_loop(previous, current, i + 1, rates, called)
                      ELSE IF r.exc # "None"
                      THEN [exc |-> r.exc, msg |-> r.msg, value |-> <<>>, calls |-> called]
                      ELSE rate_loop(previous, current, i + 1,
                                     DictSet(rates, device, r.value), called)

\* (mutant) an empty counter map does not overwrite the stored samples
StoreUnlessEmpty(previous, current) == IF current = <<>> THEN previous ELSE current

\* (mutant) the store keeps the samples of devices missing from the new map
RECURSIVE StoreMerged(_, _)
StoreMerged(previous, current) ==
    IF current = <<>> THEN previous
    ELSE StoreMerged(DictSet(previous, Head(current).k, Head(current).v), Tail(current))

\* self.previous_io_stats = current_io_stats: the value stored
StoreSamples(previous, current) == current

\* "Calculate I/O rates if we have previous data": io_rates_dict
compute_io_rates(previous, current) ==
    IF previous = <<>>
    THEN [exc |-> "None", msg |-> "", value |-> <<>>, calls |-> <<>>]
    ELSE rate_loop(previous, current, 1, <<>>, <<>>)

-----------------------------------------------------------------------------
(* The environment: what the OS collaborators can hand to one poll cycle *)

sda  == << "s", "d", "a" >>
sda1 == << "s", "d", "a", "1" >>
sda2 == << "s", "d", "a", "2" >>
dev  == << "/", "d", "e", "v", "/" >>

\* the block devices /proc/diskstats may list
DeviceNames == { sda, sda1 }

\* a well-formed line of /proc/diskstats for device name at activity level c:
\* the four cumulative counters (fields 3, 5, 7, 9) grow with c at different paces
FeedLine(name, c) ==
    [ nfields |-> MinFields, name |-> name, numeric |-> TRUE,
      reads |-> c, read_sectors |-> 4 * c, writes |-> 2 * c, write_sectors |-> 6 * c ]

\* sequences without repetition of at most n elements of S
RECURSIVE InjSeqs(_, _)
InjSeqs(S, n) ==
    IF n = 0 THEN { <<>> }
    ELSE LET shorter == InjSeqs(S, n - 1)
             fresh   == { p \in shorter \X S : \A i \in 1..Len(p[1]) : p[1][i] # p[2] }
         IN  shorter \cup { Append(p[1], p[2]) : p \in fresh }

\* the line sequences of a readable, well-formed feed: the devices in any order,
\* each at any activity level
FeedLineSeqs ==
    UNION { { [ i \in 1..Len(names) |-> FeedLine(names[i], levels[i]) ] :
              levels \in [1..Len(names) -> 0..MaxCount] } :
            names \in InjSeqs(DeviceNames, Cardinality(DeviceNames)) }

\* a line whose counters are not numbers
BadLine == [ FeedLine(sda, 0) EXCEPT !.numeric = FALSE ]

\* no feed was read (yet) in the cycle
NoFeed == [lines |-> <<>>, io_error_at |-> -1]

\* the feeds of a cycle: readable and well-formed, unreadable (the open fails),
\* or with a malformed line
Feeds ==
    { [lines |-> ls, io_error_at |-> 0] : ls \in FeedLineSeqs }
        \cup { [lines |-> <<>>, io_error_at |-> 1] }
        \cup { [lines |-> << BadLine >>, io_error_at |-> 0] }

\* one entry of psutil.disk_partitions() with the outcome of its space query
Partition(device, mountpoint, fstype, ok, total, free) ==
    [ device |-> device, mountpoint |-> mountpoint, fstype |-> fstype,
      ok |-> ok, total |-> total, free |-> free ]

\* the mounts the OS may enumerate
MountTable ==
    { Partition(dev \o sda1, << "/" >>, "ext4", TRUE, 2048, 1024),
      Partition(dev \o sda2, << "/", "v" >>, "ext4", TRUE, 100, 0),
      Partition(<< "h", ":", "/", "x" >>, << "/", "n" >>, "nfs", TRUE, 8, 6) }

MountLists == InjSeqs(MountTable, MaxMounts)

\* the exception types a collaborator may raise into update_display
ExcTypes == { "OSError", "IOError", "PermissionError", "FileNotFoundError", "Exception" }

\* what a failing print raises: a broken pipe (OSError) or a closed stream (ValueError)
PrintExcTypes == { "OSError", "ValueError" }

\* whether `except (OSError, IOError, PermissionError)` catches the type
IsSystemAccessError(type) ==
    type \in { "OSError", "IOError", "PermissionError", "FileNotFoundError" }

Signals == { "SIGINT", "SIGTERM" }

\* an exception: its type, the call that raised it, and (Python's __context__)
\* the call whose exception was being handled when it was raised
Exc(type, origin, context) == [type |-> type, origin |-> origin, context |-> context]

NoExc == Exc("None", "", "")

\* whether `except Exception` catches the type (SystemExit and KeyboardInterrupt
\* derive from BaseException only)
IsException(type) == type \notin { "SystemExit", "KeyboardInterrupt" }

-----------------------------------------------------------------------------
(* monitor.py: DiskMonitor.run, update_display and handle_shutdown *)

\* a float of seconds: a finite number of hundredths, NaN, or +infinity (which
\* also stands for every finite value beyond the range of the platform's time_t)
Seconds(h) == [kind |-> "finite", hundredths |-> h]

NaN == [kind |-> "nan", hundredths |-> 0]

Infinity == [kind |-> "inf", hundredths |-> 0]

\* no time.sleep call has returned yet
NoSleep == [kind |-> "none", hundredths |-> 0]

\* refresh_interval: float = 2.0 (also the default of --time)
DefaultInterval == Seconds(200)

\* (mutant) main() without its interval check
BelowMinimumNever(t) == FALSE

\* `args.time < 0.1`: false for NaN, as every comparison with NaN is
BelowMinimum(t) == t.kind = "finite" /\ t.hundredths < 10

\* time.sleep(t) returns after t seconds for a finite t >= 0; it raises
\* ValueError for a negative t or NaN and OverflowError for a t out of range
Sleepable(t) == t.kind = "finite" /\ t.hundredths >= 0

SleepError(t) == IF t.kind = "inf" THEN "OverflowError" ELSE "ValueError"

\* the refresh_interval values __init__ stores: it takes its argument as it is
ConstructedIntervals == { DefaultInterval, NaN, Infinity }

\* the states of the poll loop (pc)
Ring == { "Sampling", "SamplingIo", "Correlating", "Rendering", "Reporting", "Sleeping" }

\* the collector calls of update_display
Collectors == { "get_disk_usage", "get_disk_io_stats" }

\* the message update_display's handlers pass to display_error
UpdateErrorMessage(e) ==
    [ prefix |-> IF IsSystemAccessError(e.type) THEN "System access error"
                 ELSE "Unexpected error during update",
      exc    |-> e ]

\* the message run()'s handler passes to display_error
LoopErrorMessage(e) == [ prefix |-> "Unexpected error in monitoring loop", exc |-> e ]

\* (mutant) update_display without its `except Exception` clause
CaughtSystemAccessOnly(type) == IsSystemAccessError(type)

\* whether one of the two except clauses of update_display catches the type
CaughtByUpdateDisplay(type) == IsSystemAccessError(type) \/ IsException(type)

\* whether the cycle collected a counter map (get_disk_io_stats returned)
MapCollected == reached \in { "io", "rates", "rendered" }

\* whether the rate loop of the cycle finished and the samples were stored
RatesComputed == reached \in { "rates", "rendered" }

\* the while loop of run() is left: the locals of the last update_display and
\* the record of its cycle are gone
LeaveLoop ==
    /\ disk_usages' = <<>>
    /\ current_io_stats' = <<>>
    /\ io_rates_dict' = <<>>
    /\ screen' = <<>>
    /\ baseline' = <<>>
    /\ rate_base' = <<>>
    /\ slept' = NoSleep
    /\ previous_failed' = FALSE

\* the locals and the record of the running cycle stay as they are
KeepCycle ==
    UNCHANGED << disk_usages, current_io_stats, io_rates_dict, screen, baseline, rate_base,
                 slept, previous_failed >>

\* (mutant) update_display without its try block: every exception leaves it
RaiseUncaught(e) ==
    /\ raised' = e
    /\ pc' = "RunExcept"
    /\ LeaveLoop

\* exception e is raised inside the try block of update_display: an except
\* clause of update_display takes it, or else it reaches run()'s handler
RaiseInUpdateDisplay(e) ==
    /\ raised' = e
    /\ IF CaughtByUpdateDisplay(e.type)
       THEN pc' = "Reporting" /\ KeepCycle
       ELSE pc' = "RunExcept" /\ LeaveLoop

\* no method is called on its own
NoCall == [fn |-> "none"]

NoResult == [exc |-> "None", msg |-> "", value |-> <<>>, done |-> FALSE]

\* the exit status main() returns
Returns(status) == [exc |-> "None", msg |-> "", value |-> << status >>, done |-> TRUE]

\* the state after __init__: nothing sampled, nothing shown
Init ==
    /\ refresh_interval \in ConstructedIntervals
    /\ slept = NoSleep
    /\ previous_failed = FALSE
    /\ pc = "Idle"
    /\ running = TRUE
    /\ include_network \in BOOLEAN
    /\ previous_io_stats = <<>>
    /\ disk_usages = <<>>
    /\ current_io_stats = <<>>
    /\ io_rates_dict = <<>>
    /\ reached = "none"
    /\ raised = NoExc
    /\ screen = <<>>
    /\ errors_shown = <<>>
    /\ baseline = <<>>
    /\ rate_base = <<>>
    /\ exit_signum = ""
    /\ exit_cleared = FALSE
    /\ diskstats = NoFeed
    /\ call = NoCall
    /\ result = NoResult

\* the condition of run()'s while loop
LoopGoesOn == running

\* run() enters the while loop and calls update_display for the first time
Start ==
    /\ pc = "Idle"
    /\ LoopGoesOn
    /\ pc' = "Sampling"
    /\ KeepCycle
    /\ UNCHANGED << running, include_network, previous_io_stats, reached, raised,
                    errors_shown, exit_signum, exit_cleared >>
    /\ UNCHANGED << call, result, refresh_interval >>
    /\ UNCHANGED diskstats

\* disk_usages = self.collector.get_disk_usage()
CollectUsage ==
    /\ pc = "Sampling"
    /\ \E partitions \in MountLists :
           disk_usages' = get_disk_usage(partitions, include_network)
    /\ reached' = "usage"
    /\ pc' = "SamplingIo"
    /\ UNCHANGED << running, include_network, previous_io_stats, current_io_stats,
                    io_rates_dict, raised, screen, errors_shown, baseline, rate_base,
                    exit_signum, exit_cleared, diskstats >>
    /\ UNCHANGED << call, result, refresh_interval >>
    /\ UNCHANGED << slept, previous_failed >>

\* get_disk_usage() raises (psutil.disk_partitions is called outside its try)
CollectUsageRaises ==
    /\ pc = "Sampling"
    /\ \E type \in ExcTypes : RaiseInUpdateDisplay(Exc(type, "get_disk_usage", ""))
    /\ UNCHANGED << running, include_network, previous_io_stats, reached,
                    errors_shown, exit_signum, exit_cleared >>
    /\ UNCHANGED << call, result, refresh_interval >>
    /\ UNCHANGED diskstats

\* current_io_stats = self.collector.get_disk_io_stats(), on any feed and clock
\* reading; a malformed feed makes the call raise ValueError
CollectIo ==
    /\ pc = "SamplingIo"
    /\ \E feed \in Feeds, current_time \in 0..MaxTime :
           LET r == get_disk_io_stats(feed, current_time)
           IN  /\ diskstats' = feed
               /\ IF r.exc = "None"
                  THEN /\ current_io_stats' = r.value
                       /\ reached' = "io"
                       /\ pc' = "Correlating"
                       /\ UNCHANGED << raised, disk_usages, io_rates_dict, screen,
                                       baseline, rate_base, slept, previous_failed >>
                  ELSE /\ RaiseInUpdateDisplay(Exc(r.exc, "get_disk_io_stats", ""))
                       /\ UNCHANGED reached
    /\ UNCHANGED << running, include_network, previous_io_stats, errors_shown,
                    exit_signum, exit_cleared >>
    /\ UNCHANGED << call, result, refresh_interval >>

\* the get_disk_io_stats collaborator raises an error of any type
CollectIoRaises ==
    /\ pc = "SamplingIo"
    /\ \E type \in ExcTypes : RaiseInUpdateDisplay(Exc(type, "get_disk_io_stats", ""))
    /\ UNCHANGED << running, include_network, previous_io_stats, reached,
                    errors_shown, exit_signum, exit_cleared >>
    /\ UNCHANGED << call, result, refresh_interval >>
    /\ UNCHANGED diskstats

\* the rate loop, then self.previous_io_stats = current_io_stats; an exception
\* escaping the rate loop skips the assignment
Correlate ==
    /\ pc = "Correlating"
    /\ LET r == compute_io_rates(previous_io_stats, current_io_stats)
       IN  IF r.exc = "None"
           THEN /\ io_rates_dict' = r.value
                /\ previous_io_stats' = StoreSamples(previous_io_stats, current_io_stats)
                /\ rate_base' = previous_io_stats
                /\ reached' = "rates"
                /\ pc' = "Rendering"
                /\ UNCHANGED << raised, disk_usages, current_io_stats, screen, baseline,
                                slept, previous_failed >>
           ELSE /\ RaiseInUpdateDisplay(Exc(r.exc, "rate_loop", ""))
                /\ UNCHANGED << previous_io_stats, reached >>
    /\ UNCHANGED << running, include_network, errors_shown, exit_signum, exit_cleared >>
    /\ UNCHANGED << call, result, refresh_interval >>
    /\ UNCHANGED diskstats

\* self.display.display_disk_metrics(disk_usages, io_rates_dict) returns, and
\* update_display with it: clear_screen, header, separator, rows
Render ==
    /\ pc = "Rendering"
    /\ screen' = display_disk_metrics(disk_usages, io_rates_dict)
    /\ reached' = "rendered"
    /\ pc' = "Sleeping"
    /\ UNCHANGED << running, include_network, previous_io_stats, disk_usages,
                    current_io_stats, io_rates_dict, raised, errors_shown, baseline,
                    rate_base, exit_signum, exit_cleared, diskstats >>
    /\ UNCHANGED << call, result, refresh_interval >>
    /\ UNCHANGED << slept, previous_failed >>

\* (mutant) a failing display_disk_metrics puts the earlier samples back
RenderRaisesUndoingStore ==
    /\ pc = "Rendering"
    /\ \E type \in PrintExcTypes :
           /\ raised' = Exc(type, "display_disk_metrics", "")
           /\ IF CaughtByUpdateDisplay(type)
              THEN /\ pc' = "Reporting"
                   /\ disk_usages' = <<>>
                   /\ UNCHANGED << current_io_stats, io_rates_dict, screen, baseline,
                                   rate_base, slept, previous_failed >>
              ELSE /\ pc' = "RunExcept"
                   /\ LeaveLoop
    /\ previous_io_stats' = rate_base
    /\ UNCHANGED << running, include_network, reached,
                    errors_shown, exit_signum, exit_cleared >>
    /\ UNCHANGED << call, result, refresh_interval >>
    /\ UNCHANGED diskstats

\* display_disk_metrics raises at its first print (the terminal stream is
\* broken or closed): nothing is shown. The usage list is dropped here: no
\* statement reads it after the exception.
RenderRaises ==
    /\ pc = "Rendering"
    /\ \E type \in PrintExcTypes :
           /\ raised' = Exc(type, "display_disk_metrics", "")
           /\ IF CaughtByUpdateDisplay(type)
              THEN /\ pc' = "Reporting"
                   /\ disk_usages' = <<>>
                   /\ UNCHANGED << current_io_stats, io_rates_dict, screen, baseline,
                                   rate_base, slept, previous_failed >>
              ELSE /\ pc' = "RunExcept"
                   /\ LeaveLoop
    /\ UNCHANGED << running, include_network, previous_io_stats, reached,
                    errors_shown, exit_signum, exit_cleared >>
    /\ UNCHANGED << call, result, refresh_interval >>
    /\ UNCHANGED diskstats

\* (mutant) update_display runs its try body again once the error is reported
ReportErrorThenRetry ==
    /\ pc = "Reporting"
    /\ errors_shown' = Append(errors_shown, UpdateErrorMessage(raised))
    /\ raised' = NoExc
    /\ pc' = IF Len(errors_shown) = 0 THEN "Sampling" ELSE "Sleeping"
    /\ KeepCycle
    /\ UNCHANGED << running, include_network, previous_io_stats, reached,
                    exit_signum, exit_cleared >>
    /\ UNCHANGED << call, result, refresh_interval >>
    /\ UNCHANGED diskstats

\* an except clause of update_display: display_error(...) returns, and
\* update_display with it
ReportError ==
    /\ pc = "Reporting"
    /\ errors_shown' = Append(errors_shown, UpdateErrorMessage(raised))
    /\ raised' = NoExc
    /\ pc' = "Sleeping"
    /\ KeepCycle
    /\ UNCHANGED << running, include_network, previous_io_stats, reached,
                    exit_signum, exit_cleared >>
    /\ UNCHANGED << call, result, refresh_interval >>
    /\ UNCHANGED diskstats

\* display_error raises inside the except clause (print to stderr fails): the
\* new exception leaves update_display and reaches run()'s handler
ReportErrorRaises ==
    /\ pc = "Reporting"
    /\ \E type \in PrintExcTypes : raised' = Exc(type, "display_error", raised.origin)
    /\ pc' = "RunExcept"
    /\ LeaveLoop
    /\ UNCHANGED << running, include_network, previous_io_stats, reached,
                    errors_shown, exit_signum, exit_cleared >>
    /\ UNCHANGED << call, result, refresh_interval >>
    /\ diskstats' = NoFeed

\* time.sleep(self.refresh_interval) returns, self.running is still True and the
\* next update_display starts with fresh locals
Sleep ==
    /\ pc = "Sleeping"
    /\ LoopGoesOn
    /\ Sleepable(refresh_interval)
    /\ baseline' = IF MapCollected THEN current_io_stats ELSE baseline
    /\ rate_base' = <<>>
    /\ disk_usages' = <<>>
    /\ current_io_stats' = <<>>
    /\ io_rates_dict' = <<>>
    /\ reached' = "none"
    /\ errors_shown' = <<>>
    /\ screen' = <<>>
    /\ diskstats' = NoFeed
    /\ slept' = refresh_interval
    /\ previous_failed' = (reached \in { "none", "usage" })
    /\ pc' = "Sampling"
    /\ UNCHANGED << running, include_network, previous_io_stats, raised,
                    exit_signum, exit_cleared >>
    /\ UNCHANGED << call, result, refresh_interval >>

\* time.sleep raises (ValueError for a NaN or negative interval, OverflowError
\* for one too large): the exception reaches run()'s handler
SleepRaises ==
    /\ pc = "Sleeping"
    /\ ~Sleepable(refresh_interval)
    /\ raised' = Exc(SleepError(refresh_interval), "sleep", "")
    /\ pc' = "RunExcept"
    /\ LeaveLoop
    /\ UNCHANGED << running, include_network, previous_io_stats, reached,
                    errors_shown, exit_signum, exit_cleared >>
    /\ UNCHANGED << call, result, refresh_interval >>
    /\ diskstats' = NoFeed

\* (mutant) handle_shutdown without the try around clear_screen(): a failing
\* cleanup leaves the handler as an exception and sys.exit(0) is not reached
handle_shutdown_unguarded(signum, cleared) ==
    /\ running' = FALSE
    /\ exit_cleared' = cleared
    /\ exit_signum' = signum
    /\ pc' = IF cleared THEN "Terminated" ELSE "Crashed"
    /\ previous_io_stats' = <<>>
    /\ LeaveLoop
    /\ UNCHANGED << include_network, reached >>
    /\ diskstats' = NoFeed

\* handle_shutdown(signum, frame): running = False, clear_screen() with its
\* failure ignored (cleared tells whether it succeeded), sys.exit(0): the process
\* and its data end
handle_shutdown(signum, cleared) ==
    /\ running' = FALSE
    /\ exit_cleared' = cleared
    /\ exit_signum' = signum
    /\ pc' = "Terminated"
    /\ previous_io_stats' = <<>>
    /\ LeaveLoop
    /\ UNCHANGED << include_network, reached >>
    /\ diskstats' = NoFeed

\* run()'s `except Exception`: display_error(...) returns, then
\* handle_shutdown(None, None) ends the process
RunExcept ==
    /\ pc = "RunExcept"
    /\ errors_shown' = Append(errors_shown, LoopErrorMessage(raised))
    /\ \E cleared \in BOOLEAN : handle_shutdown("None", cleared)
    /\ UNCHANGED raised
    /\ UNCHANGED << call, result, refresh_interval >>

\* display_error raises inside run()'s handler: the exception leaves run()
\* uncaught, handle_shutdown is not called
RunExceptRaises ==
    /\ pc = "RunExcept"
    /\ \E type \in PrintExcTypes : raised' = Exc(type, "display_error", raised.origin)
    /\ pc' = "Crashed"
    /\ previous_io_stats' = <<>>
    /\ LeaveLoop
    /\ UNCHANGED << running, include_network, reached, errors_shown,
                    exit_signum, exit_cleared >>
    /\ UNCHANGED << call, result, refresh_interval >>
    /\ diskstats' = NoFeed

\* the positions inside the try block of update_display
TryBody == { "Sampling", "SamplingIo", "Correlating", "Rendering" }

\* time.sleep returns after handle_shutdown had set running to False without
\* ending the process: the while condition fails, run() returns and main()
\* returns 0
LoopExits ==
    /\ pc = "Sleeping"
    /\ ~LoopGoesOn
    /\ Sleepable(refresh_interval)
    /\ pc' = "Returned"
    /\ result' = Returns(0)
    /\ previous_io_stats' = <<>>
    /\ LeaveLoop
    /\ diskstats' = NoFeed
    /\ UNCHANGED << running, include_network, reached, raised, errors_shown,
                    exit_signum, exit_cleared, call, refresh_interval >>

\* SIGINT or SIGTERM is delivered and the handler's own print fails, before its
\* try block and its sys.exit(0): running is False and the exception is raised
\* where the main thread stands. In the try block of update_display it is caught
\* and reported like any error of the cycle, which ends there (reached tells
\* that the cycle was cut short; its locals are not read again); in an except
\* clause of update_display or in time.sleep it reaches run()'s handler;
\* elsewhere it leaves the program.
ShutdownRaises ==
    /\ pc \in Ring \cup { "Idle", "RunExcept" }
    /\ running' = FALSE
    /\ \E type \in PrintExcTypes :
           /\ raised' = Exc(type, "handle_shutdown", raised.origin)
           /\ pc' = IF pc \in TryBody /\ CaughtByUpdateDisplay(type) THEN "Reporting"
                     ELSE IF pc \in Ring THEN "RunExcept"
                     ELSE "Crashed"
    /\ reached' = IF pc \in TryBody THEN "interrupted" ELSE reached
    /\ previous_io_stats' = IF pc \in Ring THEN previous_io_stats ELSE <<>>
    /\ LeaveLoop
    /\ diskstats' = NoFeed
    /\ UNCHANGED << include_network, errors_shown, exit_signum, exit_cleared >>
    /\ UNCHANGED << call, result, refresh_interval >>

\* SIGINT or SIGTERM is delivered while the process runs: the handler installed
\* by __init__ is handle_shutdown, whose sys.exit(0) no `except Exception` catches
Shutdown ==
    /\ pc \in Ring \cup { "Idle", "RunExcept" }
    /\ \E signum \in Signals, cleared \in BOOLEAN : handle_shutdown(signum, cleared)
    /\ UNCHANGED << raised, errors_shown >>
    /\ UNCHANGED << call, result, refresh_interval >>

Next ==
    \/ Start
    \/ CollectUsage
    \/ CollectUsageRaises
    \/ CollectIo
    \/ CollectIoRaises
    \/ Correlate
    \/ Render
    \/ RenderRaises
    \/ ReportError
    \/ ReportErrorRaises
    \/ Sleep
    \/ SleepRaises
    \/ RunExcept
    \/ RunExceptRaises
    \/ Shutdown
    \/ ShutdownRaises
    \/ LoopExits

Spec == Init /\ [][Next]_vars

monitor_vars ==
    << running, include_network, previous_io_stats, disk_usages, current_io_stats,
       io_rates_dict, reached, raised, screen, errors_shown, baseline, rate_base,
       exit_signum, exit_cleared, diskstats, refresh_interval, slept,
       previous_failed >>

-----------------------------------------------------------------------------
(* main(): the command line decides whether a monitor is built at all *)

\* what --time can parse to (type=float accepts nan and inf)
TimeArguments ==
    { Seconds(-100), Seconds(0), Seconds(9), Seconds(10), NaN, Infinity }

MainCalls == { [fn |-> "main", time |-> t, net |-> n] : t \in TimeArguments, n \in BOOLEAN }

\* the process has parsed its arguments; no DiskMonitor exists
MainInit ==
    /\ pc = "Main"
    /\ call \in MainCalls
    /\ result = NoResult
    /\ refresh_interval = NoSleep
    /\ slept = NoSleep
    /\ previous_failed = FALSE
    /\ running = FALSE
    /\ include_network = FALSE
    /\ previous_io_stats = <<>>
    /\ disk_usages = <<>>
    /\ current_io_stats = <<>>
    /\ io_rates_dict = <<>>
    /\ reached = "none"
    /\ raised = NoExc
    /\ screen = <<>>
    /\ errors_shown = <<>>
    /\ baseline = <<>>
    /\ rate_base = <<>>
    /\ exit_signum = ""
    /\ exit_cleared = FALSE
    /\ diskstats = NoFeed

\* `if args.time < 0.1:` prints the error and returns 1
MainRejects ==
    /\ pc = "Main"
    /\ BelowMinimum(call.time)
    /\ result' = Returns(1)
    /\ pc' = "Exited"
    /\ UNCHANGED << monitor_vars, call >>

\* DiskMonitor(include_network=args.net, refresh_interval=args.time), after
\* which main() calls monitor.run()
MainConstructs ==
    /\ pc = "Main"
    /\ ~BelowMinimum(call.time)
    /\ include_network' = call.net
    /\ refresh_interval' = call.time
    /\ running' = TRUE
    /\ pc' = "Idle"
    /\ KeepCycle
    /\ UNCHANGED << previous_io_stats, reached, raised, errors_shown, exit_signum,
                    exit_cleared, diskstats, call, result >>

MainNext ==
    \/ MainRejects
    \/ MainConstructs
    \/ Next

MainSpec == MainInit /\ [][MainNext]_vars

-----------------------------------------------------------------------------
(* The methods of collector.py and formatter.py called on their own, on any
   arguments *)

\* an IOStats sample of a device: the counters at levels a and b
Sample(device, a, b) ==
    [ device |-> device, read_ops |-> 50 * a, write_ops |-> 50 * b,
      read_bytes |-> Kilo * b, write_bytes |-> 2 * Kilo * a, timestamp |-> 0 ]

Samples == { Sample(d, a, b) : d \in DeviceNames, a \in 0..MaxLevel, b \in 0..MaxLevel }

\* calls calculate_io_rates(current, previous, interval)
CalculateCalls ==
    { [fn |-> "calculate_io_rates", current |-> c, previous |-> p, interval |-> i] :
          c \in Samples, p \in Samples, i \in -1..MaxInterval }

\* what psutil.disk_partitions() may list: one mount of every special and every
\* network type, and ext4 mounts whose space query succeeds, fails, or reports an
\* empty filesystem; an nfs mount whose query fails
UnitMountTable ==
    { Partition(<< "n", "o", "n", "e" >>, << "/", t >>, t, TRUE, 8, 6) :
          t \in SPECIAL_FS_TYPES \cup NETWORK_FS_TYPES }
        \cup { Partition(dev \o sda1, << "/" >>, "ext4", TRUE, 2048, 1024),
               Partition(dev \o sda2, << "/", "v" >>, "ext4", FALSE, 0, 0),
               Partition(dev \o sda, << "/", "e" >>, "ext4", TRUE, 0, 0),
               Partition(<< "h", ":", "/", "x" >>, << "/", "n" >>, "nfs", FALSE, 0, 0) }

\* calls get_disk_usage() of a collector built with include_network = net
UsageCalls ==
    { [fn |-> "get_disk_usage", partitions |-> ps, net |-> net] :
          ps \in InjSeqs(UnitMountTable, MaxUnitMounts), net \in BOOLEAN }

loop0 == << "l", "o", "o", "p", "0" >>
ram0  == << "r", "a", "m", "0" >>

\* the lines a feed may hold: well-formed lines of disks and partitions, of a
\* loop and a ram device, a line of 13 fields, and lines whose counters are not
\* numbers
UnitLines ==
    { FeedLine(sda, 1), FeedLine(sda, 2), FeedLine(sda1, 1),
      FeedLine(loop0, 1), FeedLine(ram0, 1),
      [ FeedLine(sda2, 1) EXCEPT !.nfields = MinFields - 1 ],
      [ FeedLine(loop0, 0) EXCEPT !.numeric = FALSE ],
      BadLine }

\* all sequences of at most n elements of S
RECURSIVE Seqs(_, _)
Seqs(S, n) ==
    IF n = 0 THEN { <<>> }
    ELSE LET shorter == Seqs(S, n - 1)
         IN  shorter \cup { Append(q, x) : q \in shorter, x \in S }

\* calls get_disk_io_stats() on a feed that fails at the open, at a later
\* line, or not at all
IoCalls ==
    { [fn |-> "get_disk_io_stats", feed |-> [lines |-> ls, io_error_at |-> k],
       current_time |-> t] :
          ls \in Seqs(UnitLines, MaxLines), k \in 0..MaxLines, t \in 0..1 }

\* byte counts m * 1024^e around the thresholds of format_bytes
ByteCounts ==
    { [m |-> m, e |-> e] : m \in { 0, 1, 1023, 1024, 1025, 1536 }, e \in 0..MaxExp }
        \cup { [m |-> 1024 * 1024 - 1, e |-> e] : e \in 0..4 }
        \cup { [m |-> 500000000, e |-> 0], [m |-> 1000000000, e |-> 0] }

\* calls format_bytes(m * 1024^e)
FormatCalls == { [fn |-> "format_bytes", m |-> b.m, e |-> b.e] : b \in ByteCounts }

\* usage records as get_disk_usage builds them, of devices whose path ends in a
\* partition name, in digits only, in a slash, or is longer than its column
md0 == dev \o << "m", "d", "/", "0" >>

mapper == dev \o << "m", "a", "p", "p", "e", "r", "/", "v", "g" >>

LongMountpoint == << "/" >> \o [i \in 1..19 |-> "m"]

DisplayUsages ==
    { DiskUsage(Partition(dev \o sda1, << "/" >>, "ext4", TRUE, 2048, 1024)),
      DiskUsage(Partition(dev \o sda2, << "/", "v" >>, "ext4", TRUE, 100, 0)),
      DiskUsage(Partition(md0, << "/", "m" >>, "ext4", TRUE, 8, 6)),
      DiskUsage(Partition(dev, << "/", "e" >>, "ext4", TRUE, 8, 6)),
      DiskUsage(Partition(mapper, LongMountpoint, "ext4", TRUE, 8, 6)) }

\* rate records as the rate loop builds them
RatesOf(device, a, b) ==
    IORates([Sample(device, a, b) EXCEPT !.timestamp = 1], Sample(device, 0, 0), 1)

DisplayRates ==
    { <<>>,
      << [k |-> sda, v |-> RatesOf(sda, 1, 2)] >>,
      << [k |-> sda1, v |-> RatesOf(sda1, 2, 0)], [k |-> sda, v |-> RatesOf(sda, 1, 2)] >>,
      << [k |-> sda, v |-> RatesOf(sda, 3, 1)], [k |-> sda1, v |-> RatesOf(sda1, 2, 0)] >> }

\* calls display_disk_metrics(usages, rates) and, on the same list, again
DisplayCalls ==
    { [fn |-> "display_disk_metrics", usages |-> us, rates |-> r, rates_again |-> ra] :
          us \in InjSeqs(DisplayUsages, MaxRows), r \in DisplayRates, ra \in DisplayRates }

\* the return of a call
Returned(value) == [exc |-> "None", msg |-> "", value |-> value, done |-> TRUE]

\* the outcome of a call that returns or raises
Outcome(r) == [exc |-> r.exc, msg |-> r.msg, value |-> r.value, done |-> TRUE]

\* the variables of the monitor, which a method called on its own leaves alone
\* a collector and a formatter are constructed and one method is about to be
\* called
UnitInit ==
    /\ pc = "Calling"
    /\ call \in CalculateCalls \cup UsageCalls \cup IoCalls \cup FormatCalls \cup DisplayCalls
    /\ result = NoResult
    /\ running = TRUE
    /\ include_network = FALSE
    /\ previous_io_stats = <<>>
    /\ disk_usages = <<>>
    /\ current_io_stats = <<>>
    /\ io_rates_dict = <<>>
    /\ reached = "none"
    /\ raised = NoExc
    /\ screen = <<>>
    /\ errors_shown = <<>>
    /\ baseline = <<>>
    /\ rate_base = <<>>
    /\ exit_signum = ""
    /\ exit_cleared = FALSE
    /\ diskstats = NoFeed
    /\ refresh_interval = DefaultInterval
    /\ slept = NoSleep
    /\ previous_failed = FALSE

\* MetricsFormatter().calculate_io_rates(current, previous, interval)
CallCalculateIoRates ==
    /\ pc = "Calling"
    /\ call.fn = "calculate_io_rates"
    /\ result' = Outcome(calculate_io_rates(call.current, call.previous, call.interval))
    /\ pc' = "Called"
    /\ UNCHANGED << call, monitor_vars >>

\* DiskInfoCollector(include_network=net).get_disk_usage()
CallGetDiskUsage ==
    /\ pc = "Calling"
    /\ call.fn = "get_disk_usage"
    /\ result' = Returned(get_disk_usage(call.partitions, call.net))
    /\ pc' = "Called"
    /\ UNCHANGED << call, monitor_vars >>

\* DiskInfoCollector().get_disk_io_stats()
CallGetDiskIoStats ==
    /\ pc = "Calling"
    /\ call.fn = "get_disk_io_stats"
    /\ result' = Outcome(get_disk_io_stats(call.feed, call.current_time))
    /\ pc' = "Called"
    /\ UNCHANGED << call, monitor_vars >>

\* MetricsFormatter().format_bytes(bytes_value)
CallFormatBytes ==
    /\ pc = "Calling"
    /\ call.fn = "format_bytes"
    /\ result' = Returned(format_byte_count(call.m, call.e))
    /\ pc' = "Called"
    /\ UNCHANGED << call, monitor_vars >>

\* ConsoleDisplay().display_disk_metrics(disk_usages, io_rates_dict), twice on
\* one list: what each call printed
CallDisplayDiskMetrics ==
    /\ pc = "Calling"
    /\ call.fn = "display_disk_metrics"
    /\ result' = Returned(<< display_disk_metrics(call.usages, call.rates),
                             display_disk_metrics(call.usages, call.rates_again) >>)
    /\ pc' = "Called"
    /\ UNCHANGED << call, monitor_vars >>

UnitNext ==
    \/ CallDisplayDiskMetrics
    \/ CallCalculateIoRates
    \/ CallGetDiskUsage
    \/ CallGetDiskIoStats
    \/ CallFormatBytes

UnitSpec == UnitInit /\ [][UnitNext]_vars

-----------------------------------------------------------------------------
(* Properties *)

\* the calls inside the try block of update_display
TryBodyCalls == Collectors \cup { "rate_loop", "display_disk_metrics" }

\* the calls outside it whose exception reaches run()'s handler
LoopEndingCalls == { "display_error", "sleep" }

C3_PartialDataRendered ==
    (pc = "Sleeping" /\ reached = "usage") =>
        /\ errors_shown # <<>>
        /\ Len(screen) = 2 + Len(disk_usages)

\* C4: after every cycle that collected a counter map the store holds exactly
\* that map (replaced, not merged), whatever the rate loop skipped.
C4_StoreReplacedByCollectedMap ==
    (pc \in { "Rendering", "Reporting", "Sleeping" } /\ MapCollected) =>
        previous_io_stats = current_io_stats

\* C4 witness: a cycle ended whose map lacks a device of the previous map and
\* whose rate was skipped for a device present in both (elapsed <= 0)
C4_Witness ==
    /\ pc = "Sleeping"
    /\ reached = "rendered"
    /\ previous_io_stats = current_io_stats
    /\ \E d \in DictKeys(rate_base) : ~DictHas(current_io_stats, d)
    /\ \E d \in DictKeys(rate_base) :
           /\ DictHas(current_io_stats, d)
           /\ DictGet(current_io_stats, d).timestamp <= DictGet(rate_base, d).timestamp
           /\ ~DictHas(io_rates_dict, d)

\* C5: a rate is computed for device d iff d is a key of the new counter map and
\* of the previous-sample map and currentTimestamp - previousTimestamp > 0; the
\* rate loop raises nothing and nothing is reported for it.
C5_RateIffInBothAndElapsedPositive ==
    /\ RatesComputed =>
           \A d \in DictKeys(current_io_stats) \cup DictKeys(rate_base)
                        \cup DictKeys(io_rates_dict) :
               DictHas(io_rates_dict, d) <=>
                   /\ DictHas(current_io_stats, d)
                   /\ DictHas(rate_base, d)
                   /\ DictGet(current_io_stats, d).timestamp
                          - DictGet(rate_base, d).timestamp > 0
    /\ (MapCollected /\ pc \in { "Rendering", "Reporting", "Sleeping" }) => RatesComputed
    /\ raised.origin # "rate_loop" /\ raised.context # "rate_loop"
    /\ \A i \in 1..Len(errors_shown) : errors_shown[i].exc.origin # "rate_loop"

\* C5 witness: a device present in both maps with elapsed <= 0 got no rate, and
\* the cycle rendered without an error
C5_Witness ==
    /\ pc = "Sleeping"
    /\ reached = "rendered"
    /\ errors_shown = <<>>
    /\ \E d \in DictKeys(rate_base) :
           /\ DictHas(current_io_stats, d)
           /\ DictGet(current_io_stats, d).timestamp - DictGet(rate_base, d).timestamp <= 0
           /\ ~DictHas(io_rates_dict, d)
    /\ \E d \in DictKeys(current_io_stats) : ~DictHas(rate_base, d)

\* C6: no carry-forward: every rate of a cycle is the rate between that cycle's
\* sample and the sample of the counter map collected immediately before it; a
\* device absent from that map gets no rate.
C6_RatesFromImmediatePredecessorOnly ==
    RatesComputed =>
        \A i \in 1..Len(io_rates_dict) :
            LET d == io_rates_dict[i].k
            IN  /\ DictHas(baseline, d)
                /\ DictHas(current_io_stats, d)
                /\ io_rates_dict[i].v =
                       IORates(DictGet(current_io_stats, d), DictGet(baseline, d),
                               DictGet(current_io_stats, d).timestamp
                                   - DictGet(baseline, d).timestamp)

\* C6 witness: a device that the preceding map lacked is sampled again and gets
\* no rate, while another device gets one
C6_Witness ==
    /\ RatesComputed
    /\ io_rates_dict # <<>>
    /\ \E d \in DictKeys(current_io_stats) :
           ~DictHas(baseline, d) /\ ~DictHas(io_rates_dict, d)

\* the cycle has printed its table and the table is still on the screen
TableOnScreen == reached = "rendered" /\ pc = "Sleeping"

\* the four rate fields of a printed row
RateCols(row) == << row.cols[7], row.cols[8], row.cols[9], row.cols[10] >>

\* the rows of the rendered table are the lines after header and separator
RowOf(i) == screen[i + 2]

\* C7: row completeness: a rendered row without a correlated rate record shows
\* "N/A" in all four rate fields, never a number; a row shows numbers only when
\* a rate record was attached, and then the four rates of that record.
C7_RowCompleteness ==
    TableOnScreen =>
        /\ Len(screen) = 2 + Len(disk_usages)
        /\ \A i \in 1..Len(disk_usages) :
               LET attached == matched_io_rates(disk_usages[i], io_rates_dict)
               IN  /\ attached = <<>> =>
                          RateCols(RowOf(i)) = << "N/A", "N/A", "N/A", "N/A" >>
                   /\ attached # <<>> =>
                          /\ \A j \in 7..10 : RowOf(i).cols[j] # "N/A"
                          /\ RateCols(RowOf(i)) =
                                 << format_1f(attached[1].read_ops_per_sec),
                                    format_1f(attached[1].write_ops_per_sec),
                                    format_1f(attached[1].read_kb_per_sec),
                                    format_1f(attached[1].write_kb_per_sec) >>

\* C7 witness: rates exist, one of them is zero, and a row that correlates with
\* none of them shows N/A four times
C7_Witness ==
    /\ TableOnScreen
    /\ \E k \in 1..Len(io_rates_dict) : io_rates_dict[k].v.read_ops_per_sec.num = 0
    /\ \E i \in 1..Len(disk_usages) :
           /\ matched_io_rates(disk_usages[i], io_rates_dict) = <<>>
           /\ RateCols(RowOf(i)) = << "N/A", "N/A", "N/A", "N/A" >>

\* C8 (as stated): whenever the baseName of a row's device path is itself a key,
\* the row shows the rates of exactly that key, whatever other keys are present
\* and whatever their order.
C8_ExactKeyWins ==
    TableOnScreen =>
        \A i \in 1..Len(disk_usages) :
            LET name == basename(disk_usages[i].device)
            IN  DictHas(io_rates_dict, name) =>
                    RowOf(i) = display_disk_row(disk_usages[i],
                                                << DictGet(io_rates_dict, name) >>)

\* C9 (as stated): when baseName is not a key and some key is a prefix of
\* baseName, the row shows the rates of a key that is a prefix of baseName.
C9_PrefixBeforeStem ==
    TableOnScreen =>
        \A i \in 1..Len(disk_usages) :
            LET name == basename(disk_usages[i].device)
                keys == DictKeys(io_rates_dict)
            IN  (name \notin keys /\ \E k \in keys : startswith(name, k)) =>
                    \E k \in keys :
                        /\ startswith(name, k)
                        /\ RowOf(i) = display_disk_row(disk_usages[i],
                                                       << DictGet(io_rates_dict, k) >>)

\* whether key k satisfies one of the three rules for baseName name
SatisfiesSomeRule(k, name) ==
    \/ k = name
    \/ startswith(name, k)
    \/ startswith(k, rstrip_digits(name))

\* C10: a row shows the rates of a key only if that key satisfies one of the
\* three rules for the row's baseName, and it is a no-match row exactly when no
\* key satisfies any rule; a no-match row is rendered, with N/A in the I/O
\* columns.
C10_MatchIffSomeRule ==
    TableOnScreen =>
        \A i \in 1..Len(disk_usages) :
            LET name == basename(disk_usages[i].device)
                m    == matched_item(disk_usages[i], io_rates_dict)
            IN  /\ m = 0 <=> ~\E k \in DictKeys(io_rates_dict) : SatisfiesSomeRule(k, name)
                /\ m # 0 =>
                       /\ SatisfiesSomeRule(io_rates_dict[m].k, name)
                       /\ RowOf(i) = display_disk_row(disk_usages[i], << io_rates_dict[m].v >>)
                /\ m = 0 =>
                       /\ RowOf(i) = display_disk_row(disk_usages[i], <<>>)
                       /\ RateCols(RowOf(i)) = << "N/A", "N/A", "N/A", "N/A" >>

\* C10 witness: rates exist, no key satisfies a rule for a row, and the row is
\* on the screen with N/A in its I/O columns
C10_Witness ==
    /\ TableOnScreen
    /\ errors_shown = <<>>
    /\ io_rates_dict # <<>>
    /\ \E i \in 1..Len(disk_usages) :
           /\ \A k \in DictKeys(io_rates_dict) :
                  ~SatisfiesSomeRule(k, basename(disk_usages[i].device))
           /\ RateCols(RowOf(i)) = << "N/A", "N/A", "N/A", "N/A" >>

\* C11 (as stated): if a row's device correlates (exact rule first, else prefix
\* rule, else stem rule, over the keys of the current counter map) only to keys
\* for which no rate was computed in this cycle, the row shows "N/A" in all four
\* rate fields rather than the rates of some other device.
C11_UnavailableRatesRenderNA ==
    TableOnScreen =>
        \A i \in 1..Len(disk_usages) :
            LET name       == basename(disk_usages[i].device)
                keys       == DictKeys(current_io_stats)
                exact      == { k \in keys : k = name }
                prefix     == { k \in keys : startswith(name, k) }
                stem       == { k \in keys : startswith(k, rstrip_digits(name)) }
                correlated == IF exact # {} THEN exact
                              ELSE IF prefix # {} THEN prefix ELSE stem
            IN  (correlated # {} /\ \A k \in correlated : ~DictHas(io_rates_dict, k)) =>
                    RateCols(RowOf(i)) = << "N/A", "N/A", "N/A", "N/A" >>

\* a call of calculate_io_rates has returned or raised
CalculateCalled == pc = "Called" /\ call.fn = "calculate_io_rates"

\* C12 (as stated): every call with interval <= 0 fails with InvalidInterval and
\* every call with differing devices fails with DeviceMismatch, calls violating
\* both preconditions included; no rate is returned in either case.
C12_EachPreconditionHasItsFailure ==
    CalculateCalled =>
        /\ call.interval <= 0 =>
               /\ result.exc = "ValueError"
               /\ result.msg = "Interval must be positive"
               /\ result.value = <<>>
        /\ call.current.device # call.previous.device =>
               /\ result.exc = "ValueError"
               /\ result.msg = "IOStats must be for the same device"
               /\ result.value = <<>>

\* C12 (amended): every call with interval <= 0 raises ValueError("Interval must
\* be positive"), whatever the devices; a call with differing devices raises
\* ValueError("IOStats must be for the same device") exactly when its interval
\* is positive. Both failures are ValueError, told apart by their message only;
\* no rate is returned in either case, and every other call returns a rate.
C12_IntervalCheckedBeforeDevice ==
    CalculateCalled =>
        /\ call.interval <= 0 =>
               /\ result.exc = "ValueError"
               /\ result.msg = "Interval must be positive"
               /\ result.value = <<>>
        /\ (call.interval > 0 /\ call.current.device # call.previous.device) =>
               /\ result.exc = "ValueError"
               /\ result.msg = "IOStats must be for the same device"
               /\ result.value = <<>>
        /\ (call.interval > 0 /\ call.current.device = call.previous.device) =>
               /\ result.exc = "None"
               /\ result.value # <<>>

\* C12 witness: a call violating both preconditions failed with the interval
\* failure
C12_Witness ==
    /\ CalculateCalled
    /\ call.interval <= 0
    /\ call.current.device # call.previous.device
    /\ result.msg = "Interval must be positive"

\* the rational x is n / d (d and x.den positive)
RatIs(x, n, d) == x.num * d = n * x.den

\* C13: for samples of one device and interval > 0, calculate_io_rates returns
\* the four rates (current - previous) / interval of the read ops, the write
\* ops, the read bytes / 1024 and the write bytes / 1024, each from its own
\* counter pair, with the device of current; read_ops 100 -> 150 over 2 s is 25.
C13_RatesAreDeltasOverInterval ==
    (/\ CalculateCalled
     /\ call.interval > 0
     /\ call.current.device = call.previous.device) =>
        LET c == call.current
            p == call.previous
            r == result.value
        IN  /\ result.exc = "None"
            /\ r.device = c.device
            /\ RatIs(r.read_ops_per_sec, c.read_ops - p.read_ops, call.interval)
            /\ RatIs(r.write_ops_per_sec, c.write_ops - p.write_ops, call.interval)
            /\ RatIs(r.read_kb_per_sec, c.read_bytes - p.read_bytes, call.interval * 1024)
            /\ RatIs(r.write_kb_per_sec, c.write_bytes - p.write_bytes, call.interval * 1024)
            /\ (c.read_ops = 150 /\ p.read_ops = 100 /\ call.interval = 2) =>
                   RatIs(r.read_ops_per_sec, 25, 1)

\* C13 witness: read_ops 100 -> 150 over 2 s gave 25 while the write ops and
\* the byte counters moved differently
C13_Witness ==
    /\ CalculateCalled
    /\ result.exc = "None"
    /\ call.current.read_ops = 150
    /\ call.previous.read_ops = 100
    /\ call.interval = 2
    /\ RatIs(result.value.read_ops_per_sec, 25, 1)
    /\ call.current.write_ops < call.previous.write_ops
    /\ call.current.read_bytes - call.previous.read_bytes
           # call.current.write_bytes - call.previous.write_bytes

\* C14: no clamping: when a counter of a device is lower in the current sample
\* than in the stored one and the elapsed time is positive, the rate of that
\* counter is negative; a row the rate record is attached to shows it as the
\* number it is, not zero and not N/A, and the cycle reports no error.
C14_NegativeRatesSurfaced ==
    /\ RatesComputed =>
           \A i \in 1..Len(io_rates_dict) :
               LET c == DictGet(current_io_stats, io_rates_dict[i].k)
                   p == DictGet(rate_base, io_rates_dict[i].k)
                   r == io_rates_dict[i].v
               IN  /\ c.read_ops < p.read_ops => r.read_ops_per_sec.num < 0
                   /\ c.write_ops < p.write_ops => r.write_ops_per_sec.num < 0
                   /\ c.read_bytes < p.read_bytes => r.read_kb_per_sec.num < 0
                   /\ c.write_bytes < p.write_bytes => r.write_kb_per_sec.num < 0
    /\ TableOnScreen =>
           /\ errors_shown = <<>>
           /\ \A i \in 1..Len(disk_usages) :
                  LET m == matched_item(disk_usages[i], io_rates_dict)
                      r == io_rates_dict[m].v
                      rates == << r.read_ops_per_sec, r.write_ops_per_sec,
                                  r.read_kb_per_sec, r.write_kb_per_sec >>
                  IN  m # 0 =>
                          \A j \in 1..4 :
                              rates[j].num < 0 =>
                                  /\ RateCols(RowOf(i))[j] = format_1f(rates[j])
                                  /\ RateCols(RowOf(i))[j] \notin { "N/A", "0.0" }

\* C14 witness: the counters of sda1 fell between two samples one second apart
\* and its row shows the negative rates
C14_Witness ==
    /\ TableOnScreen
    /\ DictHas(io_rates_dict, sda1)
    /\ DictGet(current_io_stats, sda1).read_ops < DictGet(rate_base, sda1).read_ops
    /\ \E i \in 1..Len(disk_usages) :
           /\ disk_usages[i].device = dev \o sda1
           /\ RateCols(RowOf(i)) = << "-1.0", "-2.0", "-2.0", "-3.0" >>

\* the cycle's get_disk_io_stats found /proc/diskstats unreadable: the open failed
FeedUnreadable == diskstats.io_error_at = 1

\* C15: when the counter feed is entirely unreadable, get_disk_io_stats returns
\* an empty map without raising, nothing is reported for it, and the cycle
\* renders one row per usage record with N/A in all four I/O columns.
C15_UnreadableFeedRendersUsageOnly ==
    FeedUnreadable =>
        /\ MapCollected
        /\ current_io_stats = <<>>
        /\ pc \in { "Correlating", "Rendering", "Reporting", "Sleeping" }
        /\ pc = "Reporting" => raised.origin = "display_disk_metrics"
        /\ \A k \in 1..Len(errors_shown) :
               errors_shown[k].exc.origin = "display_disk_metrics"
        /\ RatesComputed => io_rates_dict = <<>> /\ previous_io_stats = <<>>
        /\ TableOnScreen =>
               /\ errors_shown = <<>>
               /\ Len(screen) = 2 + Len(disk_usages)
               /\ \A i \in 1..Len(disk_usages) :
                      /\ RowOf(i).cols[1] = text(disk_usages[i].device)
                      /\ RateCols(RowOf(i)) = << "N/A", "N/A", "N/A", "N/A" >>

\* C15 witness: rates had been computed from earlier samples, then the feed
\* became unreadable and the cycle showed its usage row with N/A
C15_Witness ==
    /\ FeedUnreadable
    /\ TableOnScreen
    /\ baseline # <<>>
    /\ Len(disk_usages) = 1
    /\ RateCols(RowOf(1)) = << "N/A", "N/A", "N/A", "N/A" >>

\* a call of get_disk_usage has returned
UsageCalled == pc = "Called" /\ call.fn = "get_disk_usage"

\* the index in the enumeration of the mount a record was made from (mount
\* paths are unique in an enumeration)
MountIndex(record) ==
    CHOOSE i \in 1..Len(call.partitions) :
        call.partitions[i].mountpoint = record.mountpoint

\* C16: get_disk_usage returns a record for a mount only if its type is none of
\* tmpfs, devtmpfs, squashfs, overlay and, unless include_network is set, none
\* of nfs, nfs4, cifs, smb, smbfs, fuse.sshfs, fuse.glusterfs; with
\* include_network set, network mounts are returned and the four pseudo types
\* still are not; the records keep the order of the enumeration.
C16_TypeFilter ==
    UsageCalled =>
        LET ps      == call.partitions
            out     == result.value
            pseudo  == { "tmpfs", "devtmpfs", "squashfs", "overlay" }
            network == { "nfs", "nfs4", "cifs", "smb", "smbfs", "fuse.sshfs",
                         "fuse.glusterfs" }
        IN  /\ \A k \in 1..Len(out) :
                   \E i \in 1..Len(ps) :
                       /\ ps[i].mountpoint = out[k].mountpoint
                       /\ ps[i].device = out[k].device
                       /\ ps[i].fstype \notin pseudo
                       /\ call.net \/ ps[i].fstype \notin network
            /\ call.net =>
                   \A i \in 1..Len(ps) :
                       (ps[i].fstype \in network /\ ps[i].ok) =>
                           \E k \in 1..Len(out) : out[k].mountpoint = ps[i].mountpoint
            /\ \A k1, k2 \in 1..Len(out) :
                   k1 < k2 => MountIndex(out[k1]) < MountIndex(out[k2])

\* C16 witness: with include_network set, a cifs mount listed before an ext4
\* mount is returned before it
C16_Witness ==
    /\ UsageCalled
    /\ call.net
    /\ Len(call.partitions) = 2
    /\ call.partitions[1].fstype = "cifs"
    /\ call.partitions[2].fstype = "ext4"
    /\ Len(result.value) = 2
    /\ result.value[1].mountpoint = << "/", "cifs" >>

\* C17: a failing space query never aborts the scan: get_disk_usage does not
\* raise and returns exactly the records, in order, of the mounts that pass the
\* type filter and whose query succeeded.
C17_FailedMountsSkipped ==
    UsageCalled =>
        LET ps      == call.partitions
            out     == result.value
            Passes(p) ==
                /\ p.fstype \notin { "tmpfs", "devtmpfs", "squashfs", "overlay" }
                /\ call.net \/ p.fstype \notin { "nfs", "nfs4", "cifs", "smb", "smbfs",
                                                 "fuse.sshfs", "fuse.glusterfs" }
            Served(p) == Passes(p) /\ p.ok
            served  == SelectSeq(ps, Served)
        IN  /\ result.exc = "None"
            /\ Len(out) = Len(served)
            /\ \A k \in 1..Len(out) :
                   /\ out[k].device = served[k].device
                   /\ out[k].mountpoint = served[k].mountpoint
                   /\ out[k].total_bytes = served[k].total
                   /\ out[k].available_bytes = served[k].free

\* C17 witness: the query of the first mount failed and the second mount was
\* still returned
C17_Witness ==
    /\ UsageCalled
    /\ Len(call.partitions) = 2
    /\ call.partitions[1].fstype = "ext4"
    /\ ~call.partitions[1].ok
    /\ call.partitions[2].ok
    /\ Len(result.value) = 1
    /\ result.value[1].mountpoint = call.partitions[2].mountpoint

\* a call of get_disk_io_stats has returned or raised
IoCalled == pc = "Called" /\ call.fn = "get_disk_io_stats"

\* the lines of the feed the call was given before the feed failed
Delivered ==
    LET feed == call.feed
    IN  IF feed.io_error_at = 0 \/ feed.io_error_at > Len(feed.lines)
        THEN feed.lines
        ELSE SubSeq(feed.lines, 1, feed.io_error_at - 1)

\* a line that counts: at least 14 fields, and a device name that starts
\* neither with "loop" nor with "ram"
Counted(line) ==
    /\ line.nfields >= 14
    /\ ~(Len(line.name) >= 4 /\ SubSeq(line.name, 1, 4) = << "l", "o", "o", "p" >>)
    /\ ~(Len(line.name) >= 3 /\ SubSeq(line.name, 1, 3) = << "r", "a", "m" >>)

FormatCalled == pc = "Called" /\ call.fn = "format_bytes"

\* the power of 1024 that gives the unit of n = m * 1024^e: the largest u <= 4
\* with 1024^u <= n (0 for n < 1024)
Magnitude(m, e) ==
    IF m = 0 THEN 0
    ELSE LET own == IF m < 1024 THEN 0
                    ELSE IF m < 1024 * 1024 THEN 1
                    ELSE IF m < 1024 * 1024 * 1024 THEN 2 ELSE 3
         IN  IF e + own > 4 THEN 4 ELSE e + own

\* the integer part of n / 1024^u for n = m * 1024^e (u - e and e - u at most 3)
Whole(m, e, u) ==
    LET P(k) == IF k = 0 THEN 1 ELSE IF k = 1 THEN 1024
                ELSE IF k = 2 THEN 1024 * 1024 ELSE 1024 * 1024 * 1024
    IN  IF u >= e THEN m \div P(u - e) ELSE m * P(e - u)

\* C19: for every non-negative integer n, format_bytes(n) is "<number> <unit>"
\* with the unit chosen by magnitude: B below 1024, with n printed as an
\* integer; KB, MB, GB below 1024^2, 1024^3, 1024^4; TB from 1024^4 on; and
\* with exactly one decimal digit whenever the unit is not B.
C19_UnitByMagnitude ==
    FormatCalled =>
        LET u    == Magnitude(call.m, call.e)
            unit == << "KB", "MB", "GB", "TB" >>
            w    == Whole(call.m, call.e, u)
        IN  /\ u = 0 => result.value = ToString(IF call.e = 0 THEN call.m ELSE 0) \o " B"
            /\ u > 0 =>
                   \E whole \in { w, w + 1 }, tenth \in 0..9 :
                       result.value =
                           ToString(whole) \o "." \o ToString(tenth) \o " " \o unit[u]
            /\ (call.m = 0) => result.value = "0 B"
            /\ (call.m = 1023 /\ call.e = 0) => result.value = "1023 B"
            /\ (call.m = 1024 /\ call.e = 0) => result.value = "1.0 KB"
            /\ (call.m = 500000000 /\ call.e = 0) => result.value = "476.8 MB"

\* C19 witness: 1024^4 was formatted in TB
C19_Witness ==
    /\ FormatCalled
    /\ call.m = 1
    /\ call.e = 4
    /\ result.value = "1.0 TB"

\* C20: every record get_disk_usage returns has used_bytes + available_bytes =
\* total_bytes, and usage_percent = used / total * 100 when total > 0 and 0
\* when total = 0, where nothing is divided.
C20_UsageRecordInvariant ==
    UsageCalled =>
        \A k \in 1..Len(result.value) :
            LET u == result.value[k]
            IN  /\ u.used_bytes + u.available_bytes = u.total_bytes
                /\ u.usage_percent.den # 0
                /\ u.total_bytes > 0 =>
                       u.usage_percent.num * u.total_bytes
                           = u.used_bytes * 100 * u.usage_percent.den
                /\ u.total_bytes = 0 => u.usage_percent.num = 0

\* C20 witness: an empty filesystem and a half-full one were both returned, at
\* 0 and at 50 percent
C20_Witness ==
    /\ UsageCalled
    /\ Len(result.value) = 2
    /\ result.value[1].total_bytes = 0
    /\ result.value[1].usage_percent.num = 0
    /\ result.value[2].total_bytes = 2048
    /\ result.value[2].used_bytes = 1024
    /\ format_1f(result.value[2].usage_percent) = "50.0"

\* the call of display_disk_metrics has returned what its two renderings printed
DisplayCalled == pc = "Called" /\ call.fn = "display_disk_metrics" /\ result.done

\* C21: what display_disk_metrics prints is the header, the separator and one
\* row per usage record in the order of the list; rendered twice, one list gives
\* the same header and separator and, at every row position, the same device
\* and mount point (cut to their columns), whatever the rates of each rendering
C21_RenderingKeepsListOrder ==
    DisplayCalled =>
        LET usages == call.usages
            first  == result.value[1]
            again  == result.value[2]
        IN  /\ Len(first) = Len(usages) + 2
            /\ Len(again) = Len(usages) + 2
            /\ first[1].kind = "header" /\ first[1].cols = ColumnTitles
            /\ first[2].kind = "separator" /\ Len(first[2].text) = Len(first[1].text)
            /\ again[1] = first[1]
            /\ again[2] = first[2]
            /\ \A i \in 1..Len(usages) :
                   \A row \in { first[i + 2], again[i + 2] } :
                       /\ row.kind = "row"
                       /\ row.cols[1] = text(truncate(usages[i].device, 14))
                       /\ row.cols[2] = text(truncate(usages[i].mountpoint, 19))

\* two records rendered twice, the second time with other rates: the renderings
\* differ, yet not in the devices and mount points
C21_Witness ==
    /\ DisplayCalled
    /\ Len(call.usages) = 2
    /\ call.usages[1].device = mapper
    /\ result.value[1] # result.value[2]
    /\ result.value[1][3].cols[1] = "/dev/mapper/vg"

\* C22: the loop is the ring Idle -> Sampling -> Correlating -> Rendering ->
\* Sleeping -> Sampling: a cycle that has come to its sleep has been through the
\* rate loop and has entered rendering, and the ring is left only to Terminated,
\* on a signal
C22_EveryCycleCorrelatesAndRenders ==
    /\ pc = "Sleeping" => reached \in { "rates", "rendered" }
    /\ pc \notin Ring \cup { "Idle" } => pc = "Terminated" /\ exit_signum \in Signals

TimeBelowTenth == call.time.kind = "finite" /\ call.time.hundredths < 10

\* the --time argument is a number from 0.1 on that time.sleep can take
TimeSleepable == call.time.kind = "finite" /\ call.time.hundredths >= 10

\* C24 (as stated): an interval below 0.1 is rejected with a non-zero status
\* and no monitor; for every accepted interval >= 0.1 (+infinity is one) the
\* loop sleeps the interval after each cycle: its time.sleep never fails.
C24_AcceptedIntervalAlwaysSlept ==
    /\ TimeBelowTenth => pc \in { "Main", "Exited" }
    /\ (TimeSleepable \/ call.time.kind = "inf") =>
           ~(pc = "RunExcept" /\ raised.origin = "sleep")

\* C24 (amended): an interval below 0.1 is rejected: main() returns 1, no
\* monitor is constructed and no cycle runs. Every other --time value is
\* accepted and becomes the monitor's refresh_interval. For a finite one (then
\* >= 0.1) every cycle is followed by a sleep of exactly that interval, so the
\* loop never sleeps less than 0.1 s. NaN (not below 0.1) and +infinity are
\* accepted as well: their first time.sleep raises, so there is one cycle and
\* no sleep at all.
C24_RejectedBelowTenthElseSleptAsConfigured ==
    /\ TimeBelowTenth =>
           /\ pc \in { "Main", "Exited" }
           /\ refresh_interval = NoSleep
           /\ reached = "none" /\ slept = NoSleep
           /\ screen = <<>> /\ errors_shown = <<>>
    /\ pc = "Exited" => TimeBelowTenth /\ result.done /\ result.value = << 1 >>
    /\ (pc \notin { "Main", "Exited" } /\ ~TimeBelowTenth) => refresh_interval = call.time
    /\ TimeSleepable =>
           /\ raised.origin # "sleep" /\ raised.context # "sleep"
           /\ slept \in { NoSleep, call.time }
           /\ (previous_failed \/ baseline # <<>>) => slept = call.time
    /\ call.time.kind \in { "nan", "inf" } =>
           slept = NoSleep /\ ~previous_failed /\ baseline = <<>>
    /\ slept # NoSleep => slept.kind = "finite" /\ slept.hundredths >= 10

\* C24 witness: started with --time 0.1, the loop has slept 0.1 s after a cycle
\* and has rendered the next one
C24_Witness ==
    /\ call.time = Seconds(10)
    /\ slept = Seconds(10)
    /\ baseline # <<>>
    /\ TableOnScreen

CallsOfCycle == compute_io_rates(previous_io_stats, current_io_stats).calls

\* C26: every calculate_io_rates call of the loop has an interval > 0 and two
\* samples of one device, and returns rates; every entry of the collected map
\* and of the stored map is keyed by its sample's device field.
C26_LoopCallsWithinPreconditions ==
    /\ \A i \in 1..Len(current_io_stats) :
           current_io_stats[i].k = current_io_stats[i].v.device
    /\ \A i \in 1..Len(previous_io_stats) :
           previous_io_stats[i].k = previous_io_stats[i].v.device
    /\ pc = "Correlating" =>
           \A i \in 1..Len(CallsOfCycle) :
               LET c == CallsOfCycle[i]
               IN  /\ c.interval > 0
                   /\ c.current.device = c.previous.device
                   /\ c.interval = c.current.timestamp - c.previous.timestamp
                   /\ calculate_io_rates(c.current, c.previous, c.interval).exc = "None"

\* C26 witness: the rate loop meets a device of both maps whose timestamps do
\* not differ by more than 0, and makes no call for it
C26_Witness ==
    /\ pc = "Correlating"
    /\ CallsOfCycle = <<>>
    /\ \E d \in DictKeys(previous_io_stats) : DictHas(current_io_stats, d)

\* C27: the stored map is the one the cycle found (the map collected by the
\* latest earlier cycle) until the rate loop has finished, and the cycle's own
\* map from then on. A cycle in which a collector raised ends with the store as
\* it found it and with no table; a cycle whose rendering raised keeps the
\* replacement made before it.
C27_StoreReplacedAfterRateLoopOnly ==
    /\ (pc \in Ring /\ reached \in { "none", "usage", "io" }) =>
           previous_io_stats = baseline
    /\ (pc \in { "Reporting", "Sleeping" } /\ reached \in { "none", "usage" }) =>
           screen = <<>>
    /\ (pc \in Ring /\ reached \in { "rates", "rendered" }) =>
           /\ previous_io_stats = current_io_stats
           /\ rate_base = baseline
    /\ (pc = "Reporting" /\ raised.origin = "display_disk_metrics") =>
           /\ reached = "rates"
           /\ previous_io_stats = current_io_stats
           /\ screen = <<>>

\* C27 witness: get_disk_io_stats raised in a cycle that found samples in the
\* store; the cycle has ended and the store still holds them
C27_Witness ==
    /\ pc = "Sleeping"
    /\ reached = "usage"
    /\ previous_io_stats # <<>>
    /\ previous_io_stats = baseline
    /\ Len(errors_shown) = 1

\* all samples of the map carry one timestamp
SameGeneration(io_stats) ==
    \A i, j \in 1..Len(io_stats) : io_stats[i].v.timestamp = io_stats[j].v.timestamp

\* the devices of the cycle's map that the store held when the rate loop ran
InBothMaps == { d \in DictKeys(current_io_stats) : DictHas(rate_base, d) }

\* C28: all samples of the stored map carry one timestamp and all samples of a
\* collected map carry one timestamp; so in a cycle whose rate loop finished
\* the elapsed interval is the same for every device of both maps, and either
\* each of them got a rate or none did.
C28_SingleGeneration ==
    /\ SameGeneration(previous_io_stats)
    /\ SameGeneration(current_io_stats)
    /\ SameGeneration(rate_base)
    /\ (pc \in Ring /\ reached \in { "rates", "rendered" }) =>
           /\ \A d, e \in InBothMaps :
                  DictGet(current_io_stats, d).timestamp - DictGet(rate_base, d).timestamp
                      = DictGet(current_io_stats, e).timestamp - DictGet(rate_base, e).timestamp
           /\ \/ \A d \in InBothMaps : DictHas(io_rates_dict, d)
              \/ io_rates_dict = <<>>

\* C28 witness: two devices are in both maps and both got a rate
C28_Witness ==
    /\ pc = "Rendering"
    /\ Cardinality(InBothMaps) = 2
    /\ \A d \in InBothMaps : DictHas(io_rates_dict, d)

\* the cycle found no baseline: it is the first cycle in which a map is
\* collected, or the latest map an earlier cycle collected was empty
NoBaseline == baseline = <<>>

\* C29: the first cycle has no baseline; and a cycle without a baseline, whose
\* rate loop has finished, has found the store empty, has computed no rate
\* whatever its own map holds, and every row it renders shows N/A in the four
\* rate columns.
C29_NoRatesWithoutBaseline ==
    /\ (pc \in Ring /\ slept = NoSleep) => NoBaseline
    /\ (pc \in Ring /\ reached \in { "rates", "rendered" } /\ NoBaseline) =>
           /\ rate_base = <<>>
           /\ io_rates_dict = <<>>
           /\ pc = "Sleeping" /\ reached = "rendered" =>
                  /\ Len(screen) = 2 + Len(disk_usages)
                  /\ \A i \in 1..Len(disk_usages) :
                         SubSeq(screen[i + 2].cols, 7, 10) = << "N/A", "N/A", "N/A", "N/A" >>

\* C29 witness: the cycle before collected an empty map; this one collected
\* counters of two devices and rendered a row, which shows N/A
C29_Witness ==
    /\ pc = "Sleeping"
    /\ reached = "rendered"
    /\ slept # NoSleep
    /\ ~previous_failed
    /\ NoBaseline
    /\ Len(current_io_stats) = 2
    /\ Len(screen) = 3
    /\ screen[3].cols[7] = "N/A"

\* the final path segment is empty, or is made of digits only and is no key
NoLeadingCharacterToShare(device, rates_dict) ==
    LET baseName == basename(device)
    IN  \/ baseName = <<>>
        \/ /\ \A k \in 1..Len(baseName) : baseName[k] \in Digits
           /\ ~DictHas(rates_dict, baseName)

====
